---- MODULE Spec2Model ----
(***************************************************************************)
(* State-machine model of the device-side print agent:                     *)
(*   - device_gui.py    : DeviceGUI (MQTT connect loop, message handler,   *)
(*                        print-job threads, session/QR broker)            *)
(*   - device_client.py : the sample single-threaded MQTT client           *)
(*                                                                         *)
(* Three specifications are given over disjoint groups of variables:       *)
(*   Spec        the GUI agent's MQTT connection and its print-job threads *)
(*   SpecSession the GUI agent's session broker (request_session_qr,       *)
(*               copy_upload_url); it shares no field with the MQTT part   *)
(*   SpecClient  the sample client of device_client.py                     *)
(***************************************************************************)
EXTENDS Integers, Sequences, FiniteSets, TLC

(* ------------------------------------------------------------------ *)
(* Program constants                                                  *)
(* ------------------------------------------------------------------ *)
\* device_gui.py:54
MQTT_RECONNECT_INTERVAL == 5
\* device_gui.py:187, the default of request_session_qr(lifetime=300)
DEFAULT_LIFETIME == 300

(* ------------------------------------------------------------------ *)
(* Bounds of the model                                                *)
(* ------------------------------------------------------------------ *)
\* number of print-job threads the GUI agent starts in one run
MaxJobs == 2
\* the wall clock (seconds, int(time.time())) runs over 0..MaxTime
MaxTime == 1
\* calls of request_session_qr in one run
MaxRequests == 2
\* the session part's clock advances ClockStep seconds at a time, up to MaxClock
ClockStep == 150
MaxClock == 600
\* print commands the sample client handles in one run
MaxClientMsgs == 2
\* consecutive failed passes of the connect loop are counted up to MaxFailures
MaxFailures == 2

(* ------------------------------------------------------------------ *)
(* Inputs                                                             *)
(* ------------------------------------------------------------------ *)
\* job_id values a command may carry; "" stands for a missing/empty job_id
JobIds == {"j1", "j2"}
NoJobId == ""
\* urls a command may carry, and the body the server returns for each
Urls == {"u1", "u2"}
Body(url) == IF url = "u1" THEN <<7>> ELSE <<>>

\* Decoded MQTT payloads: not JSON at all, a JSON value that is not an
\* object, or a JSON object with optional command / job_id / url fields.
PrintCommands ==
    [kind : {"object"}, command : {"print"}, job_id : JobIds \cup {NoJobId}, url : Urls]
Payloads ==
    PrintCommands
    \cup { [kind |-> "garbage", command |-> "", job_id |-> NoJobId, url |-> "u1"],
           [kind |-> "array",   command |-> "", job_id |-> NoJobId, url |-> "u1"],
           [kind |-> "object",  command |-> "status", job_id |-> NoJobId, url |-> "u1"] }

\* The two paho Client objects that can be referenced at the same time:
\* the loop's local `client` and self.mqtt_client.  0 stands for None.
ClientIds == {1, 2}

(* ------------------------------------------------------------------ *)
(* State                                                              *)
(* ------------------------------------------------------------------ *)
VARIABLES
    \* ---- GUI agent, MQTT part (device_gui.py) ----
    mqttLib,         \* TRUE iff `import paho.mqtt.client` succeeded (mqtt is not None)
    printing,        \* which optional print backend the platform offers
    loopPc,          \* position of the _mqtt_connect_loop thread
    client,          \* the loop's local variable `client` (0 before the first pass)
    mqtt_client,     \* self.mqtt_client (0 = None)
    mqtt_connected,  \* self.mqtt_connected
    conn,            \* per client object: state of its network connection
    subscribed,      \* per client object: its connection holds the commands subscription
    now,             \* wall clock
    threads,         \* the print-job threads, in the order they were started
    files,           \* the temp directory: file name -> bytes
    delay,           \* seconds of the last time.sleep of _mqtt_connect_loop (0: none yet)
    failures,        \* history: consecutive passes that ended in the except clause
                     \* since the last accepted connection (counted up to MaxFailures)
    \* ---- GUI agent, session part (device_gui.py) ----
    client_secret,          \* TRUE iff self.client_secret was loaded
    current_upload_url,     \* self.current_upload_url ("" = None)
    last_session_token,     \* self.last_session_token ("" = None)
    reqs,                   \* the calls of request_session_qr: position and response
    clock,                  \* wall clock of the session part, in seconds
    expires_at,             \* when the held session goes stale (issued_at + lifetime)
    lastCopy,               \* what copy_upload_url last put on the clipboard, and when
    \* ---- sample client (device_client.py) ----
    cPc,             \* position of the script: connect, loop, downloading, exited
    cConn,           \* state of the client's network connection
    cSubscribed,     \* the connection holds the commands subscription
    cJob,            \* the print command on_message is handling
    cHandled,        \* number of print commands handled so far
    cFiles,          \* the working directory: file name -> bytes
    cPublished       \* the status messages published, in order

gvars == <<mqttLib, printing, loopPc, client, mqtt_client, mqtt_connected,
           conn, subscribed, now, threads, files, delay, failures>>
svars == <<client_secret, current_upload_url, last_session_token, reqs,
           clock, expires_at, lastCopy>>
cvars == <<cPc, cConn, cSubscribed, cJob, cHandled, cFiles, cPublished>>

vars == <<gvars, svars, cvars>>

(* ------------------------------------------------------------------ *)
(* GUI agent: MQTT connection                                         *)
(* ------------------------------------------------------------------ *)
\* mqtt.Client(client_id=...) builds a fresh object: one that is not the
\* object still referenced by self.mqtt_client.
NewClient == IF mqtt_client = 1 THEN 2 ELSE 1

\* counting one more failed pass
CountFailure(n) == IF n < MaxFailures THEN n + 1 ELSE MaxFailures

\* lines 312-313: the seconds slept before the re-attempt that follows the
\* n-th consecutive failure
RetryDelay(n) == MQTT_RECONNECT_INTERVAL

\* One pass of the `while True` body of _mqtt_connect_loop up to the call
\* of loop_forever (lines 297-310), or up to its except clause (311-312).
MqttConnectLoopPass ==
    /\ loopPc = "top"
    /\ \/ /\ ~mqttLib                       \* lines 298-300: MQTT disabled
          /\ loopPc' = "returned"
          /\ UNCHANGED <<client, mqtt_client, conn, subscribed, delay, failures>>
       \/ /\ mqttLib                        \* connect() returned: CONNECT sent
          /\ client' = NewClient
          /\ mqtt_client' = NewClient
          \* the same client_id connects again: the broker drops the
          \* connection any older object still held
          /\ conn' = [c \in ClientIds |-> IF c = NewClient THEN "sent" ELSE "none"]
          /\ subscribed' = [c \in ClientIds |-> FALSE]
          /\ loopPc' = "loop"
          /\ UNCHANGED <<delay, failures>>
       \/ /\ mqttLib                        \* connect() raised: lines 311-313
          /\ client' = NewClient
          /\ conn' = [conn EXCEPT ![NewClient] = "none"]
          /\ subscribed' = [subscribed EXCEPT ![NewClient] = FALSE]
          /\ loopPc' = "sleep"
          /\ failures' = CountFailure(failures)
          /\ delay' = RetryDelay(failures')
          /\ UNCHANGED mqtt_client
    /\ UNCHANGED <<mqttLib, printing, mqtt_connected, now, threads, files>>
    /\ UNCHANGED <<svars, cvars>>

\* time.sleep(MQTT_RECONNECT_INTERVAL) is over (line 313)
MqttRetrySleep ==
    /\ loopPc = "sleep"
    /\ loopPc' = "top"
    /\ UNCHANGED <<mqttLib, printing, client, mqtt_client, mqtt_connected,
                   conn, subscribed, now, threads, files>>
    /\ UNCHANGED <<delay, failures>>
    /\ UNCHANGED <<svars, cvars>>

\* Variant of Subscribe with a slip: the subscription is skipped when the
\* flag already says connected (as it still does after an error left
\* loop_forever without a disconnect callback).
SubscribeUnlessFlagged(c, rc) == [subscribed EXCEPT ![c] = (rc = 0 /\ ~mqtt_connected)]

\* client.subscribe(topic, qos=1) of _on_mqtt_connect (line 268): takes
\* effect only on an accepted connection.
Subscribe(c, rc) == [subscribed EXCEPT ![c] = (rc = 0)]

\* The CONNACK arrives inside loop_forever and paho calls _on_mqtt_connect
\* (lines 263-269) with its return code, accepted (0) or refused (5).
OnMqttConnect ==
    /\ loopPc = "loop"
    /\ conn[client] = "sent"
    /\ \E rc \in {0, 5} :
          /\ mqtt_connected' = TRUE
          /\ subscribed' = Subscribe(client, rc)
          /\ conn' = [conn EXCEPT ![client] = IF rc = 0 THEN "up" ELSE "refused"]
          /\ failures' = IF rc = 0 THEN 0 ELSE failures
    /\ UNCHANGED <<mqttLib, printing, loopPc, client, mqtt_client, now, threads, files>>
    /\ UNCHANGED delay
    /\ UNCHANGED <<svars, cvars>>

\* The network drops a connection (or the broker closes it); the broker
\* forgets the subscription of a clean session.
Drop ==
    /\ \E c \in ClientIds :
          /\ conn[c] \in {"sent", "up"}
          /\ conn' = [conn EXCEPT ![c] = "lost"]
          /\ subscribed' = [subscribed EXCEPT ![c] = FALSE]
    /\ UNCHANGED <<mqttLib, printing, loopPc, client, mqtt_client, mqtt_connected,
                   now, threads, files>>
    /\ UNCHANGED <<delay, failures>>
    /\ UNCHANGED <<svars, cvars>>

\* loop_forever notices the lost / refused connection and paho calls
\* _on_mqtt_disconnect (lines 271-273).
OnMqttDisconnect ==
    /\ loopPc = "loop"
    /\ conn[client] \in {"lost", "refused"}
    /\ mqtt_connected' = FALSE
    /\ conn' = [conn EXCEPT ![client] = "none"]
    /\ UNCHANGED <<mqttLib, printing, loopPc, client, mqtt_client, subscribed,
                   now, threads, files>>
    /\ UNCHANGED <<delay, failures>>
    /\ UNCHANGED <<svars, cvars>>

\* loop_forever (line 310) reconnects the same client object by itself.
LoopForeverReconnect ==
    /\ loopPc = "loop"
    /\ conn[client] = "none"
    /\ conn' = [conn EXCEPT ![client] = "sent"]
    /\ UNCHANGED <<mqttLib, printing, loopPc, client, mqtt_client, mqtt_connected,
                   subscribed, now, threads, files>>
    /\ UNCHANGED <<delay, failures>>
    /\ UNCHANGED <<svars, cvars>>

Tick ==
    /\ now < MaxTime
    /\ now' = now + 1
    /\ UNCHANGED <<mqttLib, printing, loopPc, client, mqtt_client, mqtt_connected,
                   conn, subscribed, threads, files>>
    /\ UNCHANGED <<delay, failures>>
    /\ UNCHANGED <<svars, cvars>>

(* ------------------------------------------------------------------ *)
(* GUI agent: message handler and print-job threads                   *)
(* ------------------------------------------------------------------ *)
\* threading.Thread(target=self._handle_print_job, args=(job,)).start()
NewThread(job) ==
    [job_id |-> job.job_id,   \* the command's job_id field
     url |-> job.url,         \* the command's url field
     pc |-> "download",       \* download, save, print, publish, done
     name |-> "",             \* the local job_id of line 317
     attempts |-> 0,          \* calls of requests.get made
     error |-> "",            \* the early return taken: "download", "save" or none
     printed |-> "",          \* how the printing branch ended
     sunk |-> <<>>,           \* the bytes handed to the printer, if any
     pub |-> ""]              \* the status published for the job, if any

\* _on_mqtt_message (lines 275-288), called by paho on the loop thread for
\* a message the broker delivers on the subscription.
MqttMessage(p) ==
    /\ loopPc = "loop"
    /\ conn[client] = "up"
    /\ subscribed[client]
    /\ \/ /\ p.kind = "garbage"             \* json.loads raises: lines 284-286
          /\ UNCHANGED <<loopPc, threads, delay, failures>>
       \/ /\ p.kind = "array"               \* job.get raises AttributeError, which
          /\ loopPc' = "sleep"              \* leaves loop_forever: lines 311-313
          /\ failures' = CountFailure(failures)
          /\ delay' = RetryDelay(failures')
          /\ UNCHANGED threads
       \/ /\ p.kind = "object"
          /\ p.command # "print"
          /\ UNCHANGED <<loopPc, threads, delay, failures>>
       \/ /\ p.kind = "object"
          /\ p.command = "print"
          /\ Len(threads) < MaxJobs
          /\ threads' = Append(threads, NewThread(p))
          /\ UNCHANGED <<loopPc, delay, failures>>
    /\ UNCHANGED <<mqttLib, printing, client, mqtt_client, mqtt_connected,
                   conn, subscribed, now, files>>
    /\ UNCHANGED <<svars, cvars>>

\* paho hands one delivered message to the callback
OnMqttMessage == \E p \in Payloads : MqttMessage(p)

\* line 317: job.get("job_id") or f"job_{int(time.time())}"
JobName(job_id, t) == IF job_id # NoJobId THEN job_id ELSE "job_" \o ToString(t)

\* Variant of TmpFile with a slip: one temp file for all jobs.
TmpFileShared(name) == "job.bin"

\* line 330: the temp file of a job
TmpFile(name) == name \o ".bin"

\* Variant of Download with a slip: no return after a failed download.
DownloadKeepsGoing(i) ==
    /\ threads[i].pc = "download"
    /\ \E ok \in BOOLEAN :
          threads' = [threads EXCEPT
                        ![i].name = JobName(threads[i].job_id, now),
                        ![i].attempts = 1,
                        ![i].error = IF ok THEN "" ELSE "download",
                        ![i].pc = "save"]
    /\ UNCHANGED <<mqttLib, printing, loopPc, client, mqtt_client, mqtt_connected,
                   conn, subscribed, now, files>>
    /\ UNCHANGED <<delay, failures>>
    /\ UNCHANGED <<svars, cvars>>

\* lines 316-327: the job id is fixed and the url is fetched
Download(i) ==
    /\ threads[i].pc = "download"
    /\ \E ok \in BOOLEAN :
          threads' = [threads EXCEPT
                        ![i].name = JobName(threads[i].job_id, now),
                        ![i].attempts = 1,
                        ![i].error = IF ok THEN "" ELSE "download",
                        ![i].pc = IF ok THEN "save" ELSE "done"]
    /\ UNCHANGED <<mqttLib, printing, loopPc, client, mqtt_client, mqtt_connected,
                   conn, subscribed, now, files>>
    /\ UNCHANGED <<delay, failures>>
    /\ UNCHANGED <<svars, cvars>>

\* lines 329-337: the content is written to the job's temp file
Save(i) ==
    /\ threads[i].pc = "save"
    /\ \/ /\ files' = (TmpFile(threads[i].name) :> Body(threads[i].url)) @@ files
          /\ threads' = [threads EXCEPT ![i].pc = "print"]
       \/ /\ threads' = [threads EXCEPT ![i].pc = "done",   \* open/write raised
                                         ![i].error = "save"]
          /\ UNCHANGED files
    /\ UNCHANGED <<mqttLib, printing, loopPc, client, mqtt_client, mqtt_connected,
                   conn, subscribed, now>>
    /\ UNCHANGED <<delay, failures>>
    /\ UNCHANGED <<svars, cvars>>

\* What the platform-specific branch of lines 339-367 can end in.
PrintOutcomes ==
    CASE printing = "win32" -> {"sent", "error"}
      [] printing = "cups"  -> {"sent", "error", "noprinter"}
      [] OTHER              -> {"unavailable"}

\* lines 339-367: the temp file is handed to the printer, if there is one
PrintFile(i) ==
    /\ threads[i].pc = "print"
    /\ \E r \in PrintOutcomes :
          threads' = [threads EXCEPT
                        ![i].printed = r,
                        ![i].sunk = IF r = "sent"
                                    THEN <<files[TmpFile(threads[i].name)]>>
                                    ELSE <<>>,
                        ![i].pc = "publish"]
    /\ UNCHANGED <<mqttLib, printing, loopPc, client, mqtt_client, mqtt_connected,
                   conn, subscribed, now, files>>
    /\ UNCHANGED <<delay, failures>>
    /\ UNCHANGED <<svars, cvars>>

\* lines 369-377: the status message, published if the flag says connected
PublishStatus(i) ==
    /\ threads[i].pc = "publish"
    /\ threads' = [threads EXCEPT
                     ![i].pub = IF mqtt_client # 0 /\ mqtt_connected
                                THEN "completed" ELSE "",
                     ![i].pc = "done"]
    /\ UNCHANGED <<mqttLib, printing, loopPc, client, mqtt_client, mqtt_connected,
                   conn, subscribed, now, files>>
    /\ UNCHANGED <<delay, failures>>
    /\ UNCHANGED <<svars, cvars>>

(* ------------------------------------------------------------------ *)
(* GUI agent: session broker                                          *)
(* ------------------------------------------------------------------ *)
\* What requests.post / r.status_code / r.json() of lines 193-206 can give:
\* a transport error, a status other than 200, a body that is no JSON, a
\* JSON body that is no object, or a JSON object whose upload_url and token
\* may each be absent ("").
FailedResponses ==
    [kind : {"exception", "http_error", "nonjson", "array"}, upload_url : {""}, token : {""}]
ObjectResponses ==
    [kind : {"object"}, upload_url : {"", "U1", "U2"}, token : {"", "T1", "T2"}]
Responses == FailedResponses \cup ObjectResponses
NoResponse == [kind |-> "", upload_url |-> "", token |-> ""]

\* line 211: upload_url or (API + "/session_upload?token=" + token if token else None)
SessionUrl(upload_url, token) ==
    IF upload_url # "" THEN upload_url
    ELSE IF token # "" THEN "/session_upload?token=" \o token
    ELSE ""

\* request_session_qr, lines 188-206: the guard, the POST and the checks of
\* its answer.  Every failure returns (an "array" body makes j.get raise,
\* which ends the calling thread); an object goes on to line 208.
RequestSession(r) ==
    /\ reqs[r].pc = "idle"
    /\ \/ /\ ~client_secret
          /\ reqs' = [reqs EXCEPT ![r].pc = "done"]
       \/ /\ client_secret
          /\ \E resp \in Responses :
                reqs' = [reqs EXCEPT ![r].resp = resp,
                                     ![r].pc = IF resp.kind = "object"
                                               THEN "store_url" ELSE "done"]
    /\ UNCHANGED <<client_secret, current_upload_url, last_session_token,
                   clock, expires_at, lastCopy>>
    /\ UNCHANGED <<gvars, cvars>>

\* line 211: self.current_upload_url = ...
StoreUploadUrl(r) ==
    /\ reqs[r].pc = "store_url"
    /\ current_upload_url' = SessionUrl(reqs[r].resp.upload_url, reqs[r].resp.token)
    /\ expires_at' = clock + DEFAULT_LIFETIME
    /\ reqs' = [reqs EXCEPT ![r].pc = "store_token"]
    /\ UNCHANGED <<client_secret, last_session_token, clock, lastCopy>>
    /\ UNCHANGED <<gvars, cvars>>

\* line 212: self.last_session_token = token
StoreToken(r) ==
    /\ reqs[r].pc = "store_token"
    /\ last_session_token' = reqs[r].resp.token
    /\ reqs' = [reqs EXCEPT ![r].pc = "done"]
    /\ UNCHANGED <<client_secret, current_upload_url, clock, expires_at, lastCopy>>
    /\ UNCHANGED <<gvars, cvars>>

\* copy_upload_url, lines 168-174
CopyUploadUrl ==
    /\ lastCopy' = IF current_upload_url = ""
                   THEN [text |-> "", at |-> clock, expires |-> expires_at]
                   ELSE [text |-> current_upload_url, at |-> clock, expires |-> expires_at]
    /\ UNCHANGED <<client_secret, current_upload_url, last_session_token, reqs,
                   clock, expires_at>>
    /\ UNCHANGED <<gvars, cvars>>

\* time passes
SessionClock ==
    /\ clock + ClockStep <= MaxClock
    /\ clock' = clock + ClockStep
    /\ UNCHANGED <<client_secret, current_upload_url, last_session_token, reqs,
                   expires_at, lastCopy>>
    /\ UNCHANGED <<gvars, cvars>>

(* ------------------------------------------------------------------ *)
(* Sample client (device_client.py)                                   *)
(* ------------------------------------------------------------------ *)
NoJob == [kind |-> "", command |-> "", job_id |-> NoJobId, url |-> "u1"]
\* the body of an HTTP error answer (requests.get does not raise on it)
ErrorBody == <<4, 0, 4>>

\* lines 29-32: the only connect of the script; an exception ends it
ClientConnect ==
    /\ cPc = "connect"
    /\ \/ /\ cConn' = "sent"
          /\ cPc' = "loop"
       \/ /\ cPc' = "exited"
          /\ UNCHANGED cConn
    /\ UNCHANGED <<cSubscribed, cJob, cHandled, cFiles, cPublished>>
    /\ UNCHANGED <<gvars, svars>>

\* on_connect, lines 13-15, called inside loop_forever
ClientOnConnect ==
    /\ cPc = "loop"
    /\ cConn = "sent"
    /\ \E rc \in {0, 5} :
          /\ cConn' = IF rc = 0 THEN "up" ELSE "lost"
          /\ cSubscribed' = (rc = 0)
    /\ UNCHANGED <<cPc, cJob, cHandled, cFiles, cPublished>>
    /\ UNCHANGED <<gvars, svars>>

\* the network drops the connection
ClientDrop ==
    /\ cConn \in {"sent", "up"}
    /\ cConn' = "lost"
    /\ cSubscribed' = FALSE
    /\ UNCHANGED <<cPc, cJob, cHandled, cFiles, cPublished>>
    /\ UNCHANGED <<gvars, svars>>

\* loop_forever (line 33) reconnects by itself after a drop
ClientLoopReconnect ==
    /\ cPc = "loop"
    /\ cConn = "lost"
    /\ cConn' = "sent"
    /\ UNCHANGED <<cPc, cSubscribed, cJob, cHandled, cFiles, cPublished>>
    /\ UNCHANGED <<gvars, svars>>

\* on_message, lines 17-23: an exception of json.loads or data.get leaves
\* loop_forever and ends the script
ClientOnMessage ==
    /\ cPc = "loop"
    /\ cConn = "up"
    /\ cSubscribed
    /\ \E p \in Payloads :
          \/ /\ p.kind \in {"garbage", "array"}
             /\ cPc' = "exited"
             /\ UNCHANGED <<cJob, cHandled>>
          \/ /\ p.kind = "object"
             /\ p.command # "print"
             /\ UNCHANGED <<cPc, cJob, cHandled>>
          \/ /\ p.kind = "object"
             /\ p.command = "print"
             /\ cHandled < MaxClientMsgs
             /\ cJob' = p
             /\ cHandled' = cHandled + 1
             /\ cPc' = "downloading"
    /\ UNCHANGED <<cConn, cSubscribed, cFiles, cPublished>>
    /\ UNCHANGED <<gvars, svars>>

\* line 25: the file the client saves a job to
ClientFile(job_id) == job_id \o ".bin"

\* on_message, lines 24-27, still on the loop thread: fetch, save, publish
ClientDownload ==
    /\ cPc = "downloading"
    /\ \/ /\ cPc' = "exited"                 \* requests.get raised
          /\ UNCHANGED <<cFiles, cPublished>>
       \/ /\ cJob.job_id = NoJobId           \* job is None: job + '.bin' raises
          /\ cPc' = "exited"
          /\ UNCHANGED <<cFiles, cPublished>>
       \/ /\ cJob.job_id # NoJobId
          /\ \E content \in {Body(cJob.url), ErrorBody} :
                cFiles' = (ClientFile(cJob.job_id) :> content) @@ cFiles
          /\ cPublished' = Append(cPublished,
                                  [job_id |-> cJob.job_id, status |-> "completed"])
          /\ cPc' = "loop"
    /\ cJob' = NoJob
    /\ UNCHANGED <<cConn, cSubscribed, cHandled>>
    /\ UNCHANGED <<gvars, svars>>

(* ------------------------------------------------------------------ *)
(* Initial states                                                     *)
(* ------------------------------------------------------------------ *)
\* DeviceGUI.__init__, lines 72-75, and the module level, lines 27-48
GuiInit ==
    /\ mqttLib \in BOOLEAN
    /\ printing \in {"win32", "cups", "none"}
    /\ loopPc = "top"
    /\ client = 0
    /\ mqtt_client = 0
    /\ mqtt_connected = FALSE
    /\ conn = [c \in ClientIds |-> "none"]
    /\ subscribed = [c \in ClientIds |-> FALSE]
    /\ now = 0
    /\ threads = <<>>
    /\ files = <<>>
    /\ delay = 0
    /\ failures = 0

\* _load_credentials and _build_ui, lines 145-146
SessionInit ==
    /\ client_secret \in BOOLEAN
    /\ current_upload_url = ""
    /\ last_session_token = ""
    /\ reqs = [r \in 1..MaxRequests |-> [pc |-> "idle", resp |-> NoResponse]]
    /\ clock = 0
    /\ expires_at = 0
    /\ lastCopy = [text |-> "", at |-> 0, expires |-> 0]

\* device_client.py before line 29
ClientInit ==
    /\ cPc = "connect"
    /\ cConn = "none"
    /\ cSubscribed = FALSE
    /\ cJob = NoJob
    /\ cHandled = 0
    /\ cFiles = <<>>
    /\ cPublished = <<>>

(* ------------------------------------------------------------------ *)
(* Specification of the GUI agent's MQTT part and its job threads     *)
(* ------------------------------------------------------------------ *)
Init == GuiInit /\ SessionInit /\ client_secret /\ ClientInit

Next ==
    \/ MqttConnectLoopPass
    \/ MqttRetrySleep
    \/ OnMqttConnect
    \/ Drop
    \/ OnMqttDisconnect
    \/ LoopForeverReconnect
    \/ OnMqttMessage
    \/ Tick
    \/ \E i \in 1..MaxJobs : i <= Len(threads) /\ Download(i)
    \/ \E i \in 1..MaxJobs : i <= Len(threads) /\ Save(i)
    \/ \E i \in 1..MaxJobs : i <= Len(threads) /\ PrintFile(i)
    \/ \E i \in 1..MaxJobs : i <= Len(threads) /\ PublishStatus(i)

Spec == Init /\ [][Next]_vars

(* ------------------------------------------------------------------ *)
(* Specification of the GUI agent's session broker                    *)
(* ------------------------------------------------------------------ *)
InitSession == GuiInit /\ mqttLib /\ printing = "none" /\ SessionInit /\ ClientInit

NextSession ==
    \/ \E r \in 1..MaxRequests : RequestSession(r)
    \/ \E r \in 1..MaxRequests : StoreUploadUrl(r)
    \/ \E r \in 1..MaxRequests : StoreToken(r)
    \/ CopyUploadUrl
    \/ SessionClock

SpecSession == InitSession /\ [][NextSession]_vars

(* ------------------------------------------------------------------ *)
(* Specification of the sample client                                 *)
(* ------------------------------------------------------------------ *)
InitClient == GuiInit /\ mqttLib /\ printing = "none" /\ SessionInit /\ client_secret
              /\ ClientInit

NextClient ==
    \/ ClientConnect
    \/ ClientOnConnect
    \/ ClientDrop
    \/ ClientLoopReconnect
    \/ ClientOnMessage
    \/ ClientDownload

SpecClient == InitClient /\ [][NextClient]_vars

(* ------------------------------------------------------------------ *)
(* Properties                                                         *)
(* ------------------------------------------------------------------ *)
Threads == DOMAIN threads

\* thread i runs a valid command whose job_id no other command carries
ValidOnce(i) ==
    /\ threads[i].job_id \in JobIds
    /\ \A k \in Threads : k # i => threads[k].job_id # threads[i].job_id

\* the threads that published a status for job id, in a value t of `threads`
Published(t, id) == {k \in DOMAIN t : t[k].name = id /\ t[k].pub # ""}

\* the connection self.mqtt_client refers to is up and flagged so
Connected == mqtt_client # 0 /\ mqtt_connected /\ conn[mqtt_client] = "up"

\* C1: a valid print command received once while connected ends with exactly
\* one status message published for its job_id, whatever the outcome of the
\* download and of the printing: when its job ends with the connection up,
\* one status has been published for it.
C1_ExactlyOneStatus ==
    [][\A i \in Threads :
          (/\ ValidOnce(i)
           /\ threads[i].pc # "done"
           /\ threads'[i].pc = "done"
           /\ Connected)
          => Cardinality(Published(threads', threads[i].job_id)) = 1]_vars

\* C2: commands that repeat a job_id are executed once: one download, one
\* dispatch to the printer and one status message per job_id.
C2_Idempotent ==
    \A id \in JobIds :
       /\ Cardinality({k \in Threads : threads[k].job_id = id
                                       /\ threads[k].attempts > 0}) <= 1
       /\ Cardinality({k \in Threads : threads[k].job_id = id
                                       /\ threads[k].printed = "sent"}) <= 1
       /\ Cardinality(Published(threads, id)) <= 1

\* C3: every step that brings a connection up also issues the subscription
\* to the commands topic on it, so a connection that is up holds the
\* subscription, and a command is handled only on a connection whose
\* subscription was issued before.
C3_ResubscribeOnConnect ==
    [][/\ \A c \in ClientIds :
             (conn[c] # "up" /\ conn'[c] = "up") => subscribed'[c]
       /\ \A c \in ClientIds : conn'[c] = "up" => subscribed'[c]
       /\ Len(threads') > Len(threads)
             => (conn[client] = "up" /\ subscribed[client])]_vars

\* a second client object is connected and subscribed after commands were
\* handled on the first one
C3_Witness ==
    /\ client = 2
    /\ mqtt_connected
    /\ conn[2] = "up"
    /\ subscribed[2]
    /\ Len(threads) >= 1

\* C4: a status that could not be published because the agent was not
\* connected is published when the connection next becomes Connected.
C4_StatusRetainedUntilConnected ==
    [][(~mqtt_connected /\ mqtt_connected' /\ conn'[client] = "up")
          => \A i \in Threads :
                (threads[i].pc = "done" /\ threads[i].printed # ""
                 /\ threads[i].pub = "")
                => threads'[i].pub # ""]_vars

\* C5: a job whose download fails ends with a "failed" status published
\* (it ends while connected) and nothing handed to the printer.
C5_DownloadFailureReported ==
    [][\A i \in Threads :
          (/\ threads[i].pc = "download"
           /\ threads'[i].pc = "done"
           /\ threads'[i].error = "download"
           /\ Connected)
          => (threads'[i].pub = "failed" /\ threads'[i].sunk = <<>>)]_vars

\* C6: the published status tells the true outcome: "completed" only for a
\* job whose file was handed to the printer, "failed" when printing raised
\* or no printer / no printing backend was there.
C6_TrueOutcomeReported ==
    \A i \in Threads :
       /\ threads[i].pub = "completed" => threads[i].printed = "sent"
       /\ (threads[i].pub # "" /\ threads[i].printed # "sent")
             => threads[i].pub = "failed"

\* a session answer that counts as a failed request: no object, or an object
\* with neither an upload url nor a token
FailedRequest(resp) ==
    \/ resp.kind # "object"
    \/ resp.upload_url = "" /\ resp.token = ""

\* C7: no step of a failed session request changes the held session.
C7_FailureLeavesSession ==
    [][\A r \in 1..MaxRequests :
          (reqs'[r] # reqs[r] /\ FailedRequest(reqs'[r].resp))
          => UNCHANGED <<current_upload_url, last_session_token>>]_vars

\* C8: the upload url is handed out only while the session is fresh: a copy
\* made after issued_at + lifetime yields no url.
C8_SessionLifecycle ==
    lastCopy.text # "" => lastCopy.at <= lastCopy.expires

\* C9: no fatal state: the agent never stops trying to connect.
C9_NoFatalState ==
    cPc # "exited"

C11_InvalidCommandDiscarded ==
    \A i \in Threads :
       threads[i].job_id = NoJobId
       => (/\ threads[i].attempts = 0
           /\ threads[i].printed # "sent"
           /\ threads[i].pub = "")

\* C12: handling a payload that is no JSON, no JSON object, or no print
\* command changes nothing: no job, no status, the connection and the
\* receive loop stay as they were.
C12_MalformedDiscarded ==
    [][\A p \in Payloads :
          ((p.kind # "object" \/ p.command # "print") /\ MqttMessage(p))
          => UNCHANGED gvars]_vars

\* the jobs that are downloading, saving, printing or about to publish
InFlight == {i \in Threads : threads[i].pc # "done"}

\* a worker pool that is smaller than the number of commands of a run
PoolSize == MaxJobs - 1

\* C13: the number of jobs in flight never exceeds the size of the worker
\* pool; a job accepted while the pool is busy waits.
C13_BoundedConcurrency ==
    Cardinality(InFlight) <= PoolSize

\* C14: a job is reported completed only after its download succeeded: the
\* file saved for a job the sample client reported holds the body of the
\* job's url, not the answer of a failed request.
C14_CompletedAfterDownload ==
    \A k \in DOMAIN cPublished :
       cPublished[k].status = "completed"
       => cFiles[ClientFile(cPublished[k].job_id)] # ErrorBody

\* C15: a download of zero bytes is a download failure: its job ends without
\* anything handed to the printer and without a "completed" status.
C15_EmptyDownloadFails ==
    \A i \in Threads :
       (threads[i].attempts > 0 /\ Body(threads[i].url) = <<>>)
       => (/\ threads[i].pc \in {"download", "done"}
           /\ threads[i].printed = ""
           /\ threads[i].pub # "completed")

\* the delay an exponential backoff waits after the n-th consecutive failure
\* (n >= 1), starting from the base delay
Doubled(n) == IF n <= 1 THEN MQTT_RECONNECT_INTERVAL ELSE 2 * MQTT_RECONNECT_INTERVAL

\* C16: the delay before a re-attempt doubles with each consecutive failure,
\* starting from the base delay: it is the base after the first failure and
\* at least twice the base from the second consecutive failure on.
C16_BackoffDoubles ==
    /\ failures = 1 => delay = MQTT_RECONNECT_INTERVAL
    /\ (failures >= 2 /\ loopPc = "sleep") => delay >= Doubled(failures)

\* C17: handling an inbound message never blocks the event-processing path:
\* while a job is being downloaded, the thread that runs the connection's
\* loop is back in the loop, where a second message, a disconnect or a
\* keep-alive can be processed.
C17_CallbackDoesNotBlock ==
    cJob # NoJob => cPc = "loop"

\* no session request is between its stores, and every answer that was
\* stored carried an upload url and a token
Quiet ==
    \A r \in 1..MaxRequests :
       /\ reqs[r].pc \in {"idle", "done"}
       /\ reqs[r].resp.kind = "object"
             => (reqs[r].resp.upload_url # "" /\ reqs[r].resp.token # "")

\* C18: the held session is replaced wholesale: once no request is between
\* its stores (all answers complete), the stored upload url and the stored
\* token are the initial pair or come from one single response.
C18_SessionFromOneResponse ==
    Quiet
    => \/ current_upload_url = "" /\ last_session_token = ""
       \/ \E r \in 1..MaxRequests :
             /\ reqs[r].resp.kind = "object"
             /\ current_upload_url
                   = SessionUrl(reqs[r].resp.upload_url, reqs[r].resp.token)
             /\ last_session_token = reqs[r].resp.token

\* C19: a status is published for a job only after its download succeeded
\* and its content was saved: a job whose download failed or whose file
\* could not be written never has a status published.
C19_StatusOnlyAfterSaved ==
    \A i \in Threads :
       threads[i].pub # ""
       => (/\ threads[i].attempts >= 1
           /\ threads[i].error = ""
           /\ TmpFile(threads[i].name) \in DOMAIN files)

\* a job whose download failed ended unreported while the agent was
\* connected, and another job was reported "completed"
C19_Witness ==
    \E i, k \in Threads :
       /\ threads[i].error = "download"
       /\ threads[i].pc = "done"
       /\ threads[i].pub = ""
       /\ Connected
       /\ threads[k].pub = "completed"

\* C20: the connection flag matches the real connection: when
\* mqtt_connected is true, mqtt_client is the client object whose
\* connection is established.
C20_FlagMatchesConnection ==
    mqtt_connected => (mqtt_client # 0 /\ conn[mqtt_client] = "up")

====
